---- MODULE Spec2Model ----
(***************************************************************************)
(* A model of the Claude adapter of the nyx content script:                *)
(*   - ClaudeAdapter (pages/content/src/plugins/adapters/claude.adapter.ts)*)
(*     lifecycle, URL support check, UI-control injection, text insertion; *)
(*   - the chat input handler (findChatInputElement, insertTextToChatInput,*)
(*     submitChatInput).                                                   *)
(* Five specifications share the variables:                                *)
(*   Spec        the adapter lifecycle of one or several instances on one  *)
(*               document, with its timers, observer and render promises;  *)
(*   SpecUrl     isSupported() applied to a bounded set of locations;      *)
(*   SpecInsert  text insertion into a textarea by both insert functions;  *)
(*   SpecSubmit  one call of submitChatInput against a changing button;    *)
(*   SpecTools   the adapter's insertText, submitForm and attachFile on a   *)
(*               page drawn from a bounded set of documents.               *)
(***************************************************************************)
EXTENDS Integers, Sequences, FiniteSets, Bags, TLC

VARIABLES
    \* ---- the document and the window (shared by all adapter instances)
    location,            \* window.location, as [scheme, host, path, query]
    popoverNodes,        \* the elements with id 'mcp-popover-container', in document order
    styleNodes,          \* number of elements with id 'mcp-claude-button-styles'
    insertionPoint,      \* whether findButtonInsertionPoint() finds a container
    activeSidebarManager,\* whether window.activeSidebarManager is set
    \* ---- the fields of each ClaudeAdapter instance
    currentStatus, context, lastUrl, urlCheckInterval,
    mcpPopoverContainer, mcpPopoverRoot, mutationObserver,
    storeEventListenersSetup, domObserversSetup, uiIntegrationSetup,
    claudeStylesInjected,
    \* ---- the event loop
    timers,              \* bag of pending setTimeout callbacks of the instances
    urlIntervals,        \* per instance: number of running setInterval URL polls
    pendingRenders,      \* the dynamic-import promise chains of renderMCPPopover
    observerPending,     \* per instance: mutation records queued for its observer
    cleanedUp,           \* per instance: cleanup() ran on the activated adapter, no activate() since
    recovery,            \* per instance, since it was last activated: 0, or 1 once a page-ready
                         \* wait or a retry budget of it ran out, 2 once its URL poll then saw
                         \* a change to a supported page, 3 once it then mounted a control
    events,              \* number of calls of the plugin host and changes of the host page so far
    \* ---- the event bus of the plugin context and the calls of the plugin host
    handlers,            \* per instance: handlers it has registered, per event name
    emitted,             \* the events the step just taken emitted on the bus, in order
    skipped,             \* the step just taken was a lifecycle call stopped by its guard
    lastResolved,        \* per instance: the last lifecycle method that ran past its guard and resolved
    \* ---- isSupported() calls (SpecUrl)
    isSupportedResult,   \* "none", or "true" / "false": what the last isSupported() call returned
    prevCheck,           \* the call before it: [url, result]
    \* ---- text insertion (SpecInsert)
    chatInput,           \* the chat input element: [tagName, value]
    insertLog,           \* the insertions so far: [op, initial, texts, returned]
    \* ---- submitChatInput (SpecSubmit)
    submitButton,        \* what findSubmitButton() finds: [present, disabled, ariaDisabled, classDisabled]
    formPresent,         \* the chat input in the document has an enclosing form
    chatInputPresent,    \* findChatInputElement() finds an element
    lastFoundInputElement, \* the cached element: "null", or an element that is
                         \* "connected" to the document or "detached" from it
    call,                \* the state of the one submitChatInput call
    hist,                \* what the button did during the call
    \* ---- insertText, submitForm, attachFile of the adapter (SpecTools)
    page,                \* what the selectors of the adapter find in the document
    toolCall,            \* the last call: its outcome, bus events, DOM events and effects
    \* ---- the toggle state manager (SpecToggle)
    uiStore,             \* context.stores.ui: its state and the setters it exposes
    toggleCall           \* the last setter call: [key, value, before, after, sidebar, event]

docVars == <<location, popoverNodes, styleNodes, insertionPoint, activeSidebarManager>>
adapterVars == <<currentStatus, context, lastUrl, urlCheckInterval,
                 mcpPopoverContainer, mcpPopoverRoot, mutationObserver,
                 storeEventListenersSetup, domObserversSetup, uiIntegrationSetup,
                 claudeStylesInjected>>
loopVars == <<timers, urlIntervals, pendingRenders, observerPending, cleanedUp, recovery>>
busVars == <<handlers, emitted, skipped, lastResolved>>
urlVars == <<isSupportedResult, prevCheck>>
insertVars == <<chatInput, insertLog>>
submitVars == <<submitButton, formPresent, chatInputPresent, lastFoundInputElement, call, hist>>
toolVars == <<page, toolCall>>
toggleVars == <<uiStore, toggleCall>>
vars == <<docVars, adapterVars, loopVars, busVars, events, urlVars, insertVars, submitVars, toolVars, toggleVars>>

(***************************************************************************)
(* Bounds of the model.                                                    *)
(***************************************************************************)
NumInstances == 2
MaxTimers == 2
MaxNodes == 3
MaxEvents == 5
MaxInserts == 3
MaxWaitTicks == 3
MaxToolCalls == 2

Instances == 1..NumInstances

(***************************************************************************)
(* Strings.                                                                *)
(***************************************************************************)
StartsWith(s, p) == Len(s) >= Len(p) /\ SubSeq(s, 1, Len(p)) = p

\* String.prototype.includes
Includes(s, h) == \E i \in 1..(Len(s) - Len(h) + 1) : SubSeq(s, i, i + Len(h) - 1) = h

(***************************************************************************)
(* window.location.  href is the serialisation of the URL: its path is     *)
(* never empty (the root path is "/"), and the query, when present, starts *)
(* with "?".                                                               *)
(***************************************************************************)
Schemes == {"https://", "http://"}
Hosts == {"claude.ai", "notclaude.ai", "example.com"}
Paths == {"/", "/chat/abc", "/chat", "/new", "/newsletter", "/project/p1", "/settings"}
Queries == {"", "?", "?next=/new"}
Urls == [scheme : Schemes, host : Hosts, path : Paths, query : Queries]

Href(u) == u.scheme \o u.host \o u.path \o u.query

RootUrl == [scheme |-> "https://", host |-> "claude.ai", path |-> "/", query |-> ""]
ChatUrl == [scheme |-> "https://", host |-> "claude.ai", path |-> "/chat/abc", query |-> ""]
SettingsUrl == [scheme |-> "https://", host |-> "claude.ai", path |-> "/settings", query |-> ""]

(***************************************************************************)
(* isSupported()                                                           *)
(***************************************************************************)
hostnames == {"claude.ai"}

\* A pattern /^src.*/ (anchoredEnd FALSE) or /^src$/ (anchoredEnd TRUE).
supportedPatternsRootSlash ==
    { [src |-> "https://claude.ai/chat/", anchoredEnd |-> FALSE],
      [src |-> "https://claude.ai/new", anchoredEnd |-> FALSE],
      [src |-> "https://claude.ai/project/", anchoredEnd |-> FALSE],
      [src |-> "https://claude.ai/", anchoredEnd |-> TRUE] }

supportedPatterns ==
    { [src |-> "https://claude.ai/chat/", anchoredEnd |-> FALSE],
      [src |-> "https://claude.ai/new", anchoredEnd |-> FALSE],
      [src |-> "https://claude.ai/project/", anchoredEnd |-> FALSE],
      [src |-> "https://claude.ai", anchoredEnd |-> TRUE] }

\* RegExp.prototype.test for the two pattern shapes above.
RegexTest(p, s) == IF p.anchoredEnd THEN s = p.src ELSE StartsWith(s, p.src)

isClaudeHost(u) == \E hostname \in hostnames : Includes(u.host, hostname)

isSupported(u) == isClaudeHost(u) /\ \E pattern \in supportedPatterns : RegexTest(pattern, Href(u))

(***************************************************************************)
(* Text insertion into a textarea.                                         *)
(***************************************************************************)
Texts == {"", "a", "b\n"}

\* ClaudeAdapter.insertText, TEXTAREA branch: the new value of the element.
AdapterTextareaValueNoCheck(currentText, text) == currentText \o "\n\n" \o text

AdapterTextareaValue(currentText, text) ==
    IF currentText # "" THEN currentText \o "\n\n" \o text ELSE text

\* insertTextToChatInput, TEXTAREA branch: formattedText.
HandlerTextareaValue(currentText, text) ==
    IF currentText # "" THEN currentText \o "\n\n" \o text ELSE text

Whitespace == {" ", "\n", "\t"}

\* currentText.trim() === ''
IsBlank(s) == \A k \in 1..Len(s) : SubSeq(s, k, k) \in Whitespace

\* the initial contents of a chat input
Contents == Texts \cup {" "}

ContentEditableValueNoTrim(currentText, text) ==
    IF currentText # "" THEN currentText \o "\n\n" \o text ELSE currentText \o text

\* insertText, contenteditable branch: the text content after the execCommand calls
ContentEditableValue(currentText, text) ==
    IF ~IsBlank(currentText) THEN currentText \o "\n\n" \o text ELSE currentText \o text

\* insertTextToChatInput, contenteditable branch: the text content after the
\* execCommand calls
HandlerContentEditableValue(currentText, text) ==
    IF currentText # "" /\ ~IsBlank(currentText)
    THEN currentText \o "\n\n" \o text
    ELSE currentText \o text

(***************************************************************************)
(* The adapter lifecycle: state after construction.                        *)
(***************************************************************************)
LifecycleUrls == {ChatUrl, SettingsUrl}

maxAttempts == 10
defaultMaxRetries == 5
ensureMaxRetries == 3

Timer(i, k, n, m) == [owner |-> i, kind |-> k, n |-> n, max |-> m]
Pending == BagCardinality(timers)
TimersOf(i) == {t \in BagToSet(timers) : t.owner = i}

\* The fields of a constructed ClaudeAdapter, the event loop empty.
AdapterConstructed ==
    /\ currentStatus = [i \in Instances |-> "uninitialized"]
    /\ context = [i \in Instances |-> FALSE]
    /\ lastUrl = [i \in Instances |-> ""]
    /\ urlCheckInterval = [i \in Instances |-> FALSE]
    /\ mcpPopoverContainer = [i \in Instances |-> 0]
    /\ mcpPopoverRoot = [i \in Instances |-> 0]
    /\ mutationObserver = [i \in Instances |-> FALSE]
    /\ storeEventListenersSetup = [i \in Instances |-> FALSE]
    /\ domObserversSetup = [i \in Instances |-> FALSE]
    /\ uiIntegrationSetup = [i \in Instances |-> FALSE]
    /\ claudeStylesInjected = [i \in Instances |-> FALSE]
    /\ timers = EmptyBag
    /\ urlIntervals = [i \in Instances |-> 0]
    /\ pendingRenders = {}
    /\ observerPending = [i \in Instances |-> FALSE]
    /\ cleanedUp = [i \in Instances |-> FALSE]
    /\ recovery = [i \in Instances |-> 0]
    /\ events = 0
    /\ handlers = [i \in Instances |-> [completed |-> 0, toggle |-> 0]]
    /\ emitted = <<>>
    /\ skipped = FALSE
    /\ lastResolved = [i \in Instances |-> "none"]

DocumentEmpty ==
    /\ popoverNodes = <<>>
    /\ styleNodes = 0

UrlIdle ==
    /\ isSupportedResult = "none"
    /\ prevCheck = [url |-> RootUrl, result |-> "none"]

InsertIdle ==
    /\ chatInput = [tagName |-> "TEXTAREA", value |-> ""]
    /\ insertLog = [op |-> "none", initial |-> "", texts |-> <<>>, returned |-> TRUE]

SubmitIdle ==
    /\ submitButton = [present |-> FALSE, disabled |-> FALSE, ariaDisabled |-> FALSE,
                       classDisabled |-> FALSE, hasSize |-> FALSE]
    /\ formPresent = FALSE
    /\ chatInputPresent = FALSE
    /\ lastFoundInputElement = "null"
    /\ call = [phase |-> "idle", maxWaitTime |-> 0, elapsedTime |-> 0, intervalId |-> FALSE,
               resolved |-> "pending", clicks |-> 0, formSubmits |-> 0, enterKeys |-> 0, ticks |-> 0,
               clicked |-> {}, dispatched |-> <<>>, input |-> "none"]
    /\ hist = [foundAtCall |-> FALSE, disabledAtCall |-> FALSE, everEnabled |-> FALSE,
               enabledAtTick |-> FALSE, alwaysFound |-> TRUE]

\* File arguments of attachFile: null, an empty file, a file with content
NullFile == [isNull |-> TRUE, name |-> "", size |-> 0]
EmptyFile == [isNull |-> FALSE, name |-> "empty.txt", size |-> 0]
TextFile == [isNull |-> FALSE, name |-> "a.txt", size |-> 3]
Files == {NullFile, EmptyFile, TextFile}

\* No call of insertText, submitForm or attachFile made yet
NoCall ==
    [n |-> 0, op |-> "none", outcome |-> "none", emitted |-> <<>>, dispatched |-> <<>>,
     inserted |-> FALSE, clicked |-> FALSE, method |-> "none", content |-> "",
     file |-> NullFile, inputElement |-> FALSE, target |-> "none", threw |-> FALSE]

\* what getState() returns
ToggleState(mcpEnabled, autoInsert, autoSubmit, autoExecute) ==
    [mcpEnabled |-> mcpEnabled, autoInsert |-> autoInsert,
     autoSubmit |-> autoSubmit, autoExecute |-> autoExecute]

NoToggleCall ==
    [key |-> "none", value |-> FALSE,
     before |-> ToggleState(FALSE, FALSE, FALSE, FALSE),
     after |-> ToggleState(FALSE, FALSE, FALSE, FALSE),
     sidebar |-> "none",
     event |-> [sent |-> FALSE, toggleState |-> ToggleState(FALSE, FALSE, FALSE, FALSE)]]

ToggleIdle ==
    /\ uiStore = [mcpEnabled |-> FALSE, autoSubmit |-> FALSE, sidebarVisibility |-> "unset",
                  setMCPEnabled |-> FALSE, setSidebarVisibility |-> FALSE,
                  updatePreferences |-> FALSE]
    /\ toggleCall = NoToggleCall

ToolsIdle ==
    /\ page = [chatInput |-> "none", content |-> "", submit |-> [selector |-> 0, state |-> "enabled"],
               fileInput |-> FALSE, dropZones |-> {}, supportsHas |-> TRUE]
    /\ toolCall = NoCall

Init ==
    /\ location \in LifecycleUrls
    /\ insertionPoint \in BOOLEAN
    /\ activeSidebarManager \in BOOLEAN
    /\ DocumentEmpty
    /\ AdapterConstructed
    /\ UrlIdle /\ InsertIdle /\ SubmitIdle /\ ToolsIdle /\ ToggleIdle

(***************************************************************************)
(* The document.                                                           *)
(***************************************************************************)
\* document.getElementById('mcp-popover-container') finds an element
PopoverExistsNever(nodes) == FALSE

PopoverExists(nodes) == nodes # <<>>

\* node.isConnected
IsConnected(node) == \E k \in 1..Len(popoverNodes) : popoverNodes[k] = node

\* The elements some field, promise or the document still refers to
Referenced ==
    {popoverNodes[k] : k \in 1..Len(popoverNodes)}
      \cup {mcpPopoverContainer[j] : j \in Instances}
      \cup {mcpPopoverRoot[j] : j \in Instances}
      \cup {r.node : r \in pendingRenders}

\* document.createElement('div'): an element nothing refers to yet
FreshNodes == (1..MaxNodes) \ Referenced
FreshNode == CHOOSE n \in FreshNodes : \A m \in FreshNodes : n <= m

\* A childList mutation under document.body queues a record for every
\* connected observer.
Notified == [j \in Instances |-> observerPending[j] \/ mutationObserver[j]]

(***************************************************************************)
(* Private methods of the adapter, as the parts of an action they set.     *)
(***************************************************************************)
\* injectClaudeButtonStyles: the number of style elements and the flag after it
StylesAfterInject(i) ==
    IF claudeStylesInjected[i] THEN styleNodes
    ELSE (IF styleNodes > 0 THEN styleNodes - 1 ELSE 0) + 1

injectClaudeButtonStyles(i) ==
    /\ styleNodes' = StylesAfterInject(i)
    /\ claudeStylesInjected' = [claudeStylesInjected EXCEPT ![i] = TRUE]

\* injectMCPPopover followed by renderMCPPopover up to the dynamic import
injectMCPPopover(i) ==
    IF PopoverExists(popoverNodes)
    THEN UNCHANGED <<popoverNodes, mcpPopoverContainer, pendingRenders, observerPending>>
    ELSE /\ FreshNodes # {}
         /\ popoverNodes' = Append(popoverNodes, FreshNode)
         /\ mcpPopoverContainer' = [mcpPopoverContainer EXCEPT ![i] = FreshNode]
         /\ pendingRenders' = pendingRenders \cup {[owner |-> i, node |-> FreshNode]}
         /\ observerPending' = Notified

\* instance i gives up a page-ready wait or an injection
RanOut(i) == [recovery EXCEPT ![i] = IF @ = 0 THEN 1 ELSE @]

canRetryOnceMore(attempt, maxRetries) == attempt <= maxRetries

\* attempt < maxRetries: attemptInjection schedules another attempt
canRetry(attempt, maxRetries) == attempt < maxRetries

\* attemptInjection(attempt) of injectMCPPopoverWithRetry(maxRetries); tm is
\* the bag of timers the running callback leaves behind.
attemptInjection(i, attempt, maxRetries, tm) ==
    IF PopoverExists(popoverNodes)
    THEN /\ timers' = tm
         /\ UNCHANGED <<popoverNodes, mcpPopoverContainer, pendingRenders, observerPending, recovery>>
    ELSE IF insertionPoint
    THEN /\ timers' = tm
         /\ injectMCPPopover(i)
         /\ recovery' = [recovery EXCEPT ![i] = IF @ = 2 THEN 3 ELSE @]
    ELSE IF canRetry(attempt, maxRetries)
    THEN /\ BagCardinality(tm) < MaxTimers
         /\ timers' = tm (+) SetToBag({Timer(i, "retry", attempt + 1, maxRetries)})
         /\ UNCHANGED <<popoverNodes, mcpPopoverContainer, pendingRenders, observerPending, recovery>>
    ELSE /\ timers' = tm
         /\ recovery' = RanOut(i)
         /\ UNCHANGED <<popoverNodes, mcpPopoverContainer, pendingRenders, observerPending>>

setupUIIntegrationOnce(i, tm) ==
    IF uiIntegrationSetup[i]
    THEN /\ timers' = tm
         /\ UNCHANGED uiIntegrationSetup
    ELSE /\ BagCardinality(tm) < MaxTimers
         /\ uiIntegrationSetup' = [uiIntegrationSetup EXCEPT ![i] = TRUE]
         /\ timers' = tm (+) SetToBag({Timer(i, "ready", 0, maxAttempts)})

\* setupUIIntegration: sets the flag and starts waitForPageReady, whose first
\* check is a timeout of 100 ms.
setupUIIntegration(i, tm) ==
    /\ BagCardinality(tm) < MaxTimers
    /\ uiIntegrationSetup' = [uiIntegrationSetup EXCEPT ![i] = TRUE]
    /\ timers' = tm (+) SetToBag({Timer(i, "ready", 0, maxAttempts)})

\* cleanupUIIntegration followed by cleanupDOMObservers
cleanupUIAndObservers(i) ==
    /\ mcpPopoverRoot' = [mcpPopoverRoot EXCEPT ![i] = 0]
    /\ mcpPopoverContainer' = [mcpPopoverContainer EXCEPT ![i] = 0]
    /\ popoverNodes' = IF PopoverExists(popoverNodes) THEN Tail(popoverNodes) ELSE popoverNodes
    /\ mutationObserver' = [mutationObserver EXCEPT ![i] = FALSE]
    /\ observerPending' =
          [j \in Instances |->
              IF j = i THEN FALSE
              ELSE IF PopoverExists(popoverNodes) THEN Notified[j] ELSE observerPending[j]]

(***************************************************************************)
(* Lifecycle operations of instance i, called by the plugin host.          *)
(***************************************************************************)
NotLifecycle == UNCHANGED <<urlVars, insertVars, submitVars, toolVars, toggleVars>>

\* Mutation-observer callbacks are microtasks: they run before the next task.
ObserverReady == \E j \in Instances : mutationObserver[j] /\ observerPending[j]

\* The observer callbacks a task leaves queued each start a page-ready wait
\* when they find no control but an insertion point: the model has room for
\* the first timers of all of them.
RoomForObserverCallbacks ==
    (~PopoverExists(popoverNodes') /\ insertionPoint') =>
        BagCardinality(timers')
          + Cardinality({j \in Instances : mutationObserver'[j] /\ observerPending'[j]})
            <= MaxTimers

\* a task that is a call by the plugin host or a change made by the host page
External ==
    /\ ~ObserverReady
    /\ events < MaxEvents
    /\ events' = events + 1
    /\ NotLifecycle
    /\ RoomForObserverCallbacks

\* a task that is a callback of the event loop
Internal == ~ObserverReady /\ UNCHANGED events /\ NotLifecycle

\* a microtask
Microtask == UNCHANGED events /\ NotLifecycle

\* context.eventBus.emit(type, ...) by instance i
BusEvent(type, i) == [type |-> type, owner |-> i]

\* what a step leaves on the bus, and whether a lifecycle guard stopped it
Step(em, sk) == emitted' = em /\ skipped' = sk

\* a step that emits nothing
Quiet == Step(<<>>, FALSE) /\ UNCHANGED <<handlers, lastResolved>>

\* a lifecycle call stopped by its guard: it logs a warning and returns
Skip == Step(<<>>, TRUE) /\ UNCHANGED <<handlers, lastResolved>>

Resolved(i, method) == lastResolved' = [lastResolved EXCEPT ![i] = method]

\* the guards of initialize, activate and deactivate
alreadyInitializedOnlyActive(i) == currentStatus[i] = "active"

alreadyInitialized(i) == currentStatus[i] \in {"initializing", "active"}

alreadyActive(i) == currentStatus[i] = "active"

alreadyInactive(i) == currentStatus[i] \in {"inactive", "disabled"}

\* setupStoreEventListeners: the handlers on the bus after it
HandlersAfterSetup(i) ==
    IF storeEventListenersSetup[i] THEN handlers
    ELSE [handlers EXCEPT ![i] = [completed |-> @.completed + 1, toggle |-> @.toggle + 1]]

IntervalsAfterSetupUnguarded(i) == [urlIntervals EXCEPT ![i] = @ + 1]

\* setupUrlTracking: the running URL polls after it
IntervalsAfterSetup(i) ==
    IF urlCheckInterval[i] THEN urlIntervals ELSE [urlIntervals EXCEPT ![i] = @ + 1]

\* BaseAdapterPlugin, whose source is not part of the repository snapshot:
\* initialize stores the context and moves to 'initializing', activate moves
\* to 'active', deactivate to 'inactive', cleanup back to 'uninitialized'.
superInitialize(i) ==
    /\ context' = [context EXCEPT ![i] = TRUE]
    /\ currentStatus' = [currentStatus EXCEPT ![i] = "initializing"]

superActivate(i) == currentStatus' = [currentStatus EXCEPT ![i] = "active"]

superDeactivate(i) == currentStatus' = [currentStatus EXCEPT ![i] = "inactive"]

superCleanup(i) == currentStatus' = [currentStatus EXCEPT ![i] = "uninitialized"]

\* initialize(context)
Initialize(i) ==
    /\ IF alreadyInitialized(i)
       THEN /\ UNCHANGED <<currentStatus, context, lastUrl, urlCheckInterval, urlIntervals, storeEventListenersSetup>>
            /\ Skip
       ELSE /\ superInitialize(i)
            /\ lastUrl' = [lastUrl EXCEPT ![i] = Href(location)]
            /\ urlIntervals' = IntervalsAfterSetup(i)
            /\ urlCheckInterval' = [urlCheckInterval EXCEPT ![i] = TRUE]
            /\ handlers' = HandlersAfterSetup(i)
            /\ storeEventListenersSetup' = [storeEventListenersSetup EXCEPT ![i] = TRUE]
            /\ Step(<<>>, FALSE)
            /\ Resolved(i, "initialize")
    /\ UNCHANGED <<docVars, timers, pendingRenders, observerPending, cleanedUp, recovery,
                   mcpPopoverContainer, mcpPopoverRoot, mutationObserver,
                   domObserversSetup, uiIntegrationSetup, claudeStylesInjected>>
    /\ External

\* activate()
Activate(i) ==
    /\ context[i]
    /\ IF alreadyActive(i)
       THEN /\ UNCHANGED <<docVars, adapterVars, loopVars>>
            /\ Skip
       ELSE /\ superActivate(i)
            /\ injectClaudeButtonStyles(i)
            /\ mutationObserver' = [mutationObserver EXCEPT ![i] = TRUE]
            /\ domObserversSetup' = [domObserversSetup EXCEPT ![i] = TRUE]
            /\ setupUIIntegration(i, timers)
            /\ cleanedUp' = [cleanedUp EXCEPT ![i] = FALSE]
            /\ UNCHANGED recovery
            /\ Step(<<BusEvent("adapter:activated", i)>>, FALSE)
            /\ Resolved(i, "activate")
            /\ UNCHANGED handlers
            /\ UNCHANGED <<location, popoverNodes, insertionPoint, activeSidebarManager,
                           context, lastUrl, urlCheckInterval, urlIntervals, mcpPopoverContainer, mcpPopoverRoot,
                           storeEventListenersSetup, pendingRenders, observerPending>>
    /\ External

\* deactivate()
Deactivate(i) ==
    /\ context[i]
    /\ IF alreadyInactive(i)
       THEN /\ UNCHANGED <<docVars, adapterVars, loopVars>>
            /\ Skip
       ELSE /\ superDeactivate(i)
            /\ cleanupUIAndObservers(i)
            /\ Step(<<BusEvent("adapter:deactivated", i)>>, FALSE)
            /\ Resolved(i, "deactivate")
            /\ UNCHANGED handlers
            /\ storeEventListenersSetup' = [storeEventListenersSetup EXCEPT ![i] = FALSE]
            /\ domObserversSetup' = [domObserversSetup EXCEPT ![i] = FALSE]
            /\ uiIntegrationSetup' = [uiIntegrationSetup EXCEPT ![i] = FALSE]
            /\ UNCHANGED <<location, styleNodes, insertionPoint, activeSidebarManager,
                           context, lastUrl, urlCheckInterval, urlIntervals, claudeStylesInjected,
                           timers, pendingRenders, cleanedUp>>
            /\ recovery' = [recovery EXCEPT ![i] = 0]
    /\ External

\* cleanup()
Cleanup(i) ==
    /\ context[i]
    /\ superCleanup(i)
    /\ urlIntervals' = IF urlCheckInterval[i] THEN [urlIntervals EXCEPT ![i] = @ - 1]
                                              ELSE urlIntervals
    /\ urlCheckInterval' = [urlCheckInterval EXCEPT ![i] = FALSE]
    /\ cleanupUIAndObservers(i)
    /\ styleNodes' = IF styleNodes > 0 THEN styleNodes - 1 ELSE 0
    /\ claudeStylesInjected' = [claudeStylesInjected EXCEPT ![i] = FALSE]
    /\ storeEventListenersSetup' = [storeEventListenersSetup EXCEPT ![i] = FALSE]
    /\ domObserversSetup' = [domObserversSetup EXCEPT ![i] = FALSE]
    /\ uiIntegrationSetup' = [uiIntegrationSetup EXCEPT ![i] = FALSE]
    /\ cleanedUp' = [cleanedUp EXCEPT ![i] = domObserversSetup[i]]
    /\ recovery' = [recovery EXCEPT ![i] = 0]
    /\ Step(<<>>, FALSE)
    /\ Resolved(i, "cleanup")
    /\ UNCHANGED handlers
    /\ UNCHANGED <<location, insertionPoint, activeSidebarManager,
                   context, lastUrl, timers, pendingRenders>>
    /\ External

onPageChangedOnlyStyles(i, tm) ==
    /\ lastUrl' = [lastUrl EXCEPT ![i] = Href(location)]
    /\ timers' = tm
    /\ IF isSupported(location)
       THEN injectClaudeButtonStyles(i)
       ELSE UNCHANGED <<styleNodes, claudeStylesInjected>>

\* onPageChanged(url, oldUrl), with tm the timers pending when it runs
onPageChanged(i, tm) ==
    /\ lastUrl' = [lastUrl EXCEPT ![i] = Href(location)]
    /\ IF isSupported(location)
       THEN /\ injectClaudeButtonStyles(i)
            /\ BagCardinality(tm) + 2 <= MaxTimers
            /\ timers' = tm (+) SetToBag({Timer(i, "navSetup", 0, 0), Timer(i, "navCheck", 0, 0)})
       ELSE /\ timers' = tm
            /\ UNCHANGED <<styleNodes, claudeStylesInjected>>

\* one tick of the URL poll started by setupUrlTracking
UrlTick(i) ==
    /\ urlIntervals[i] > 0
    /\ IF Href(location) # lastUrl[i]
       THEN /\ onPageChanged(i, timers)
            /\ Step(<<BusEvent("app:site-changed", i)>>, FALSE)
            /\ recovery' = [recovery EXCEPT ![i] = IF @ = 1 /\ isSupported(location) THEN 2 ELSE @]
       ELSE /\ UNCHANGED <<lastUrl, timers, styleNodes, claudeStylesInjected, recovery>>
            /\ Step(<<>>, FALSE)
    /\ UNCHANGED <<handlers, lastResolved>>
    /\ UNCHANGED <<location, popoverNodes, insertionPoint, activeSidebarManager,
                   currentStatus, context, urlCheckInterval, urlIntervals, mcpPopoverContainer, mcpPopoverRoot,
                   mutationObserver, storeEventListenersSetup, domObserversSetup,
                   uiIntegrationSetup, pendingRenders, observerPending, cleanedUp>>
    /\ Internal

\* onHostChanged(newHost, oldHost)
OnHostChanged(i) ==
    /\ context[i]
    /\ IF isSupported(location)
       THEN /\ setupUIIntegration(i, timers)
            /\ Step(<<>>, FALSE)
       ELSE /\ UNCHANGED <<uiIntegrationSetup, timers>>
            /\ Step(<<BusEvent("adapter:deactivated", i)>>, FALSE)
    /\ UNCHANGED <<handlers, lastResolved>>
    /\ UNCHANGED <<docVars, currentStatus, context, lastUrl, urlCheckInterval, urlIntervals, mcpPopoverContainer,
                   mcpPopoverRoot, mutationObserver, storeEventListenersSetup, domObserversSetup,
                   claudeStylesInjected, pendingRenders, observerPending, cleanedUp, recovery>>
    /\ External

\* injectMCPPopoverManually()
InjectManually(i) ==
    /\ context[i]
    /\ attemptInjection(i, 1, defaultMaxRetries, timers)
    /\ UNCHANGED <<location, styleNodes, insertionPoint, activeSidebarManager,
                   currentStatus, context, lastUrl, urlCheckInterval, urlIntervals, mcpPopoverRoot,
                   mutationObserver, storeEventListenersSetup, domObserversSetup,
                   uiIntegrationSetup, claudeStylesInjected, cleanedUp>>
    /\ Quiet
    /\ External

(***************************************************************************)
(* Callbacks run by the event loop.                                        *)
(***************************************************************************)
TimerFrame ==
    UNCHANGED <<location, styleNodes, insertionPoint, activeSidebarManager,
                currentStatus, context, lastUrl, urlCheckInterval, urlIntervals, mcpPopoverRoot,
                mutationObserver, storeEventListenersSetup, domObserversSetup,
                claudeStylesInjected, cleanedUp>>

timedOutLate(attempts) == attempts > maxAttempts

\* attempts >= maxAttempts: checkReady rejects
timedOut(attempts) == attempts >= maxAttempts

\* checkReady of waitForPageReady; on resolve the continuation of
\* setupUIIntegration runs injectMCPPopoverWithRetry() in the same turn.
CheckReady(t) ==
    /\ BagIn(t, timers) /\ t.kind = "ready"
    /\ LET tm == timers (-) SetToBag({t})
           attempts == t.n + 1
       IN IF insertionPoint
          THEN attemptInjection(t.owner, 1, defaultMaxRetries, tm)
          ELSE /\ IF timedOut(attempts)
                  THEN /\ timers' = tm
                       /\ recovery' = RanOut(t.owner)
                  ELSE /\ timers' = tm (+) SetToBag({Timer(t.owner, "ready", attempts, maxAttempts)})
                       /\ UNCHANGED recovery
               /\ UNCHANGED <<popoverNodes, mcpPopoverContainer, pendingRenders, observerPending>>
    /\ UNCHANGED uiIntegrationSetup
    /\ TimerFrame
    /\ Quiet
    /\ Internal

\* the timeout of attemptInjection(attempt + 1)
RetryInjection(t) ==
    /\ BagIn(t, timers) /\ t.kind = "retry"
    /\ attemptInjection(t.owner, t.n, t.max, timers (-) SetToBag({t}))
    /\ UNCHANGED uiIntegrationSetup
    /\ TimerFrame
    /\ Quiet
    /\ Internal

\* the 1000 ms timeout of onPageChanged: setupUIIntegration()
NavSetup(t) ==
    /\ BagIn(t, timers) /\ t.kind = "navSetup"
    /\ setupUIIntegration(t.owner, timers (-) SetToBag({t}))
    /\ UNCHANGED <<popoverNodes, mcpPopoverContainer, pendingRenders, observerPending, recovery>>
    /\ TimerFrame
    /\ Quiet
    /\ Internal

\* the 1500 ms timeout of onPageChanged: checkAndRestoreSidebar(), which
\* runs ensureMCPPopoverConnection() when a sidebar manager exists
NavCheck(t) ==
    /\ BagIn(t, timers) /\ t.kind = "navCheck"
    /\ IF activeSidebarManager /\ ~PopoverExists(popoverNodes)
       THEN attemptInjection(t.owner, 1, ensureMaxRetries, timers (-) SetToBag({t}))
       ELSE /\ timers' = timers (-) SetToBag({t})
            /\ UNCHANGED <<popoverNodes, mcpPopoverContainer, pendingRenders, observerPending, recovery>>
    /\ UNCHANGED uiIntegrationSetup
    /\ TimerFrame
    /\ Quiet
    /\ Internal

\* the import chain of renderMCPPopover resolves: createRoot and render
RenderResolved(r) ==
    /\ r \in pendingRenders
    /\ pendingRenders' = pendingRenders \ {r}
    /\ IF IsConnected(r.node)
       THEN /\ mcpPopoverRoot' = [mcpPopoverRoot EXCEPT ![r.owner] = r.node]
            /\ observerPending' = Notified
       ELSE UNCHANGED <<mcpPopoverRoot, observerPending>>
    /\ UNCHANGED <<docVars, currentStatus, context, lastUrl, urlCheckInterval, urlIntervals, mcpPopoverContainer,
                   mutationObserver, storeEventListenersSetup, domObserversSetup, uiIntegrationSetup,
                   claudeStylesInjected, timers, cleanedUp, recovery>>
    /\ Quiet
    /\ Internal

shouldReinjectAlways == TRUE

\* shouldReinject: a childList mutation was seen and no element with id
\* 'mcp-popover-container' is in the document
shouldReinject == ~PopoverExists(popoverNodes)

\* the MutationObserver callback of setupDOMObservers
ObserverCallback(i) ==
    /\ mutationObserver[i] /\ observerPending[i]
    /\ observerPending' = [observerPending EXCEPT ![i] = FALSE]
    /\ IF shouldReinject /\ insertionPoint
       THEN setupUIIntegration(i, timers)
       ELSE UNCHANGED <<uiIntegrationSetup, timers>>
    /\ UNCHANGED <<docVars, currentStatus, context, lastUrl, urlCheckInterval, urlIntervals, mcpPopoverContainer,
                   mcpPopoverRoot, mutationObserver, storeEventListenersSetup, domObserversSetup,
                   claudeStylesInjected, pendingRenders, cleanedUp, recovery>>
    /\ Quiet
    /\ Microtask

(***************************************************************************)
(* The host page.                                                          *)
(***************************************************************************)
\* a re-render of the host page removes the injected control
HostRemovesPopover ==
    /\ PopoverExists(popoverNodes)
    /\ popoverNodes' = Tail(popoverNodes)
    /\ observerPending' = Notified
    /\ UNCHANGED <<location, styleNodes, insertionPoint, activeSidebarManager,
                   adapterVars, timers, urlIntervals, pendingRenders, cleanedUp, recovery>>
    /\ Quiet
    /\ External

\* the composer container appears, or disappears with everything in it
HostChangesInsertionPoint ==
    /\ insertionPoint' = ~insertionPoint
    /\ popoverNodes' = IF insertionPoint THEN <<>> ELSE popoverNodes
    /\ observerPending' = Notified
    /\ UNCHANGED <<location, styleNodes, activeSidebarManager,
                   adapterVars, timers, urlIntervals, pendingRenders, cleanedUp, recovery>>
    /\ Quiet
    /\ External

\* client-side navigation
Navigate(u) ==
    /\ u # location
    /\ location' = u
    /\ UNCHANGED <<popoverNodes, styleNodes, insertionPoint, activeSidebarManager,
                   adapterVars, loopVars>>
    /\ Quiet
    /\ External

Next ==
    \/ \E i \in Instances : Initialize(i)
    \/ \E i \in Instances : Activate(i)
    \/ \E i \in Instances : Deactivate(i)
    \/ \E i \in Instances : Cleanup(i)
    \/ \E i \in Instances : UrlTick(i)
    \/ \E i \in Instances : OnHostChanged(i)
    \/ \E i \in Instances : InjectManually(i)
    \/ \E t \in BagToSet(timers) : CheckReady(t)
    \/ \E t \in BagToSet(timers) : RetryInjection(t)
    \/ \E t \in BagToSet(timers) : NavSetup(t)
    \/ \E t \in BagToSet(timers) : NavCheck(t)
    \/ \E r \in pendingRenders : RenderResolved(r)
    \/ \E i \in Instances : ObserverCallback(i)
    \/ HostRemovesPopover
    \/ HostChangesInsertionPoint
    \/ \E u \in LifecycleUrls : Navigate(u)

Spec == Init /\ [][Next]_vars

(***************************************************************************)
(* SpecFair: the lifecycle under a fair event loop.  A timeout that is due *)
(* runs, a queued mutation record is delivered to its observer, a settled  *)
(* import chain runs its continuation, and the URL poll keeps ticking.     *)
(* Calls of the plugin host and changes of the host page are not forced.   *)
(***************************************************************************)
Fairness ==
    /\ WF_vars(\E t \in BagToSet(timers) : CheckReady(t))
    /\ WF_vars(\E t \in BagToSet(timers) : RetryInjection(t))
    /\ WF_vars(\E t \in BagToSet(timers) : NavSetup(t))
    /\ WF_vars(\E t \in BagToSet(timers) : NavCheck(t))
    /\ WF_vars(\E r \in pendingRenders : RenderResolved(r))
    /\ WF_vars(\E i \in Instances : ObserverCallback(i))
    /\ WF_vars(\E i \in Instances : UrlTick(i))

\* the adapters are constructed on the chat page of a host with a sidebar
InitFair == Init /\ location = ChatUrl /\ activeSidebarManager

SpecFair == InitFair /\ [][Next]_vars /\ Fairness

(***************************************************************************)
(* C25. While an instance is active: whenever the control is gone from the *)
(* document after a DOM mutation that the instance's observer was notified *)
(* of, and an insertion point exists from then on, the control is          *)
(* eventually mounted again, provided observer callbacks and timers are    *)
(* run fairly.                                                             *)
(***************************************************************************)
RemovedControlIsRemounted ==
    \A i \in Instances :
        (/\ currentStatus[i] = "active"
         /\ observerPending[i]
         /\ ~PopoverExists(popoverNodes)
         /\ insertionPoint)
            ~> (\/ PopoverExists(popoverNodes)
                \/ ~insertionPoint
                \/ currentStatus[i] # "active")

\* an active instance whose rendered control was removed from the document
\* has mounted a new one
RemountedAfterRemoval ==
    \E i \in Instances :
        /\ currentStatus[i] = "active"
        /\ mcpPopoverRoot[i] # 0
        /\ ~IsConnected(mcpPopoverRoot[i])
        /\ mcpPopoverContainer[i] # mcpPopoverRoot[i]
        /\ IsConnected(mcpPopoverContainer[i])

\* the timers of the bag tm other than t, and the pending timeouts of kind
\* k that belong to instance i
Without(tm, t) == tm (-) SetToBag({t})

PendingOf(i, k, tm) ==
    CopiesIn(TRUE, BagOfAll(LAMBDA t : t.owner = i /\ t.kind = k, tm))

(***************************************************************************)
(* C22. waitForPageReady always settles: it makes at most 10 checks for    *)
(* the insertion point, the first check that finds one resolves it (the    *)
(* injection that waits for it runs and the control is in the document),   *)
(* the 10th check rejects it when none was found, and a check that settles *)
(* it schedules no further timer; a check that does not schedules exactly  *)
(* the next one.                                                           *)
(***************************************************************************)
WaitForPageReadySettles ==
    /\ [](\A t \in BagToSet(timers) : t.kind = "ready" => t.n + 1 <= 10)
    /\ [][\A t \in BagToSet(timers) : CheckReady(t) =>
            IF insertionPoint
            THEN timers' = Without(timers, t) /\ PopoverExists(popoverNodes')
            ELSE IF t.n + 1 = 10
            THEN timers' = Without(timers, t) /\ popoverNodes' = popoverNodes
            ELSE /\ timers' = Without(timers, t)
                              (+) SetToBag({[owner |-> t.owner, kind |-> "ready",
                                             n |-> t.n + 1, max |-> 10]})
                 /\ popoverNodes' = popoverNodes]_vars

\* nine checks found no insertion point and the tenth is due
TenthCheckDue ==
    \E t \in BagToSet(timers) : t.kind = "ready" /\ t.n = 9 /\ ~insertionPoint

(***************************************************************************)
(* C23. injectMCPPopoverWithRetry(maxRetries) makes at most maxRetries     *)
(* attempts, 5 by default and 3 from ensureMCPPopoverConnection.  An       *)
(* attempt that finds the control present mounts nothing and schedules     *)
(* nothing; the first attempt that finds an insertion point mounts the     *)
(* control and stops; an attempt that finds neither schedules the next     *)
(* one, except the last, after which no timer is scheduled.                *)
(***************************************************************************)
InjectionAttemptsBounded ==
    /\ [](\A t \in BagToSet(timers) :
            t.kind = "retry" => (t.max \in {5, 3} /\ 2 <= t.n /\ t.n <= t.max))
    /\ [][\A t \in BagToSet(timers) : RetryInjection(t) =>
            IF PopoverExists(popoverNodes)
            THEN timers' = Without(timers, t) /\ popoverNodes' = popoverNodes
            ELSE IF insertionPoint
            THEN timers' = Without(timers, t) /\ Len(popoverNodes') = 1
            ELSE IF t.n < t.max
            THEN /\ timers' = Without(timers, t)
                              (+) SetToBag({[owner |-> t.owner, kind |-> "retry",
                                             n |-> t.n + 1, max |-> t.max]})
                 /\ popoverNodes' = popoverNodes
            ELSE timers' = Without(timers, t) /\ popoverNodes' = popoverNodes]_vars

\* the last attempt of an injection is due and there is still no insertion point
LastAttemptDue ==
    \E t \in BagToSet(timers) : t.kind = "retry" /\ t.n = t.max /\ ~insertionPoint

(***************************************************************************)
(* C24. At most one URL poll runs per instance.  On each tick the page-    *)
(* changed hook runs if and only if location.href differs from lastUrl; it *)
(* leaves lastUrl equal to the current href, so a change is detected once; *)
(* and each run of the hook emits exactly one 'app:site-changed' event,    *)
(* whether or not the new page is supported.                               *)
(***************************************************************************)
UrlPollDetectsEachChangeOnce ==
    /\ [](\A i \in Instances : urlIntervals[i] <= 1)
    /\ [][\A i \in Instances : UrlTick(i) =>
            IF Href(location) # lastUrl[i]
            THEN /\ lastUrl'[i] = Href(location)
                 /\ emitted' = <<[type |-> "app:site-changed", owner |-> i]>>
            ELSE /\ emitted' = <<>>
                 /\ lastUrl' = lastUrl
                 /\ timers' = timers]_vars

\* a tick has just run the hook on a page that is not supported
ChangeToUnsupportedPageEmitted ==
    \E i \in Instances :
        /\ emitted = <<[type |-> "app:site-changed", owner |-> i]>>
        /\ ~isSupported(location)
        /\ lastUrl[i] = Href(location)

(***************************************************************************)
(* C26. Running out of page-ready checks or of injection retries is not    *)
(* fatal: the step that gives up leaves the status of every instance, its  *)
(* observer and its URL poll as they were; a tick of the poll that sees a  *)
(* change to a supported page schedules setupUIIntegration, which starts a *)
(* fresh page-ready wait; and a check of that wait that finds an insertion *)
(* point leaves the control mounted.                                       *)
(***************************************************************************)
ExhaustionIsNotFatal ==
    [][/\ \A t \in BagToSet(timers) : (CheckReady(t) \/ RetryInjection(t)) =>
              /\ currentStatus' = currentStatus
              /\ mutationObserver' = mutationObserver
              /\ urlIntervals' = urlIntervals
       /\ \A i \in Instances :
              (UrlTick(i) /\ Href(location) # lastUrl[i] /\ isSupported(location)) =>
                  PendingOf(i, "navSetup", timers') = PendingOf(i, "navSetup", timers) + 1
       /\ \A t \in BagToSet(timers) : NavSetup(t) =>
              /\ PendingOf(t.owner, "ready", timers') = PendingOf(t.owner, "ready", timers) + 1
              /\ BagIn([owner |-> t.owner, kind |-> "ready", n |-> 0, max |-> 10], timers')
       /\ \A t \in BagToSet(timers) : (CheckReady(t) /\ insertionPoint) =>
              PopoverExists(popoverNodes')]_vars

\* an active instance ran out of checks or retries, its poll then saw a
\* change to a supported page, and it then mounted the control
RecoveredAfterExhaustion ==
    \E i \in Instances :
        /\ recovery[i] = 3
        /\ currentStatus[i] = "active"
        /\ PopoverExists(popoverNodes)

(***************************************************************************)
(* C27. The uiIntegrationSetup flag guards setupUIIntegration against      *)
(* duplicate execution: while the flag of an instance is true, no step     *)
(* adds a page-ready wait of that instance to the ones already pending.    *)
(***************************************************************************)
FlagGuardsSetupUIIntegration ==
    [][\A i \in Instances :
          (uiIntegrationSetup[i] /\ uiIntegrationSetup'[i]) =>
              PendingOf(i, "ready", timers') <= PendingOf(i, "ready", timers)]_vars

\* instance i emitted 'adapter:deactivated' in the step just taken
EmittedDeactivated(i) ==
    \E n \in 1..Len(emitted) : emitted[n] = [type |-> "adapter:deactivated", owner |-> i]

(***************************************************************************)
(* C31. Whenever an instance emits 'adapter:deactivated', from deactivate  *)
(* or from onHostChanged on an unsupported host, in the resulting state    *)
(* the control is not in the document and the mutation observer of the     *)
(* instance is disconnected.                                               *)
(***************************************************************************)
DeactivatedLeavesNoControl ==
    \A i \in Instances :
        EmittedDeactivated(i) => (~PopoverExists(popoverNodes) /\ ~mutationObserver[i])

\* no callback of the event loop is left to run
Quiescent ==
    /\ timers = EmptyBag
    /\ pendingRenders = {}
    /\ \A i \in Instances : ~(mutationObserver[i] /\ observerPending[i])

(***************************************************************************)
(* C32. The adapter's own DOM writes never retrigger injection: a step     *)
(* that mounts the control or renders into it leaves the control in the    *)
(* document, an observer callback that finds the control present starts no *)
(* timer and changes no flag, and once the host page and the plugin host   *)
(* stop acting the event loop runs out of callbacks: a removal leads to a  *)
(* bounded number of injections.                                           *)
(***************************************************************************)
OwnWritesDoNotRetrigger ==
    /\ [][(\/ Len(popoverNodes') > Len(popoverNodes)
            \/ \E i \in Instances : mcpPopoverRoot'[i] \notin {0, mcpPopoverRoot[i]})
            => PopoverExists(popoverNodes')]_vars
    /\ [][\A i \in Instances :
            (ObserverCallback(i) /\ PopoverExists(popoverNodes)) =>
                (timers' = timers /\ uiIntegrationSetup' = uiIntegrationSetup)]_vars
    /\ <>[]Quiescent

\* an active instance has mounted the control and rendered into it, the
\* callbacks these writes queued have run, and nothing is left to run
MountedRenderedAndQuiet ==
    \E i \in Instances :
        /\ mutationObserver[i]
        /\ mcpPopoverRoot[i] # 0
        /\ IsConnected(mcpPopoverRoot[i])
        /\ Quiescent

(***************************************************************************)
(* C37. For every instance and every reachable state the flag              *)
(* claudeStylesInjected is true only if an element with id                 *)
(* 'mcp-claude-button-styles' is in the document.                          *)
(***************************************************************************)
StylesFlagImpliesStylesheet ==
    \A i \in Instances : claudeStylesInjected[i] => styleNodes > 0


(***************************************************************************)
(* C1. In every reachable state the document holds at most one element     *)
(* with id 'mcp-popover-container' and at most one with id                 *)
(* 'mcp-claude-button-styles', whatever the instances, their timers and    *)
(* observers and the host page have done.                                  *)
(***************************************************************************)
AtMostOneControlAndStylesheet == Len(popoverNodes) <= 1 /\ styleNodes <= 1

\* both instances active, the control and the stylesheet in the document,
\* and an injection chain still pending
TwoActiveInstancesOneControl ==
    /\ \A i \in Instances : currentStatus[i] = "active"
    /\ Len(popoverNodes) = 1
    /\ styleNodes = 1
    /\ Pending > 0

(***************************************************************************)
(* C2. Once cleanup() called after activate() has resolved, no timer of    *)
(* the instance is pending and neither the control nor the stylesheet is   *)
(* in the document, until the next activate().                             *)
(***************************************************************************)
CleanupLeavesNoTimerNoNode ==
    \A i \in Instances :
        cleanedUp[i] =>
            /\ TimersOf(i) = {}
            /\ ~urlCheckInterval[i]
            /\ popoverNodes = <<>>
            /\ styleNodes = 0

(***************************************************************************)
(* C10. For every activated instance (its observer is connected) the       *)
(* injection handle is null iff no control is mounted in the document.     *)
(***************************************************************************)
HandleNullIffNoControl ==
    \A i \in Instances :
        mutationObserver[i] =>
            ((mcpPopoverContainer[i] = 0) <=> ~PopoverExists(popoverNodes))

(***************************************************************************)
(* C14. activate() resolves only after the UI-integration timer chain it   *)
(* started has finished: while activate() is the last lifecycle method     *)
(* that resolved, no page-ready or injection-retry timer of the instance   *)
(* is pending.                                                             *)
(***************************************************************************)
ActivateResolvesAfterTimerChain ==
    \A i \in Instances :
        lastResolved[i] = "activate" =>
            {t \in TimersOf(i) : t.kind \in {"ready", "retry"}} = {}

(***************************************************************************)
(* C15. Once deactivate() has resolved, every interval and timeout of the  *)
(* instance is cleared, until the next lifecycle call that takes effect.   *)
(***************************************************************************)
DeactivateClearsEveryTimer ==
    \A i \in Instances :
        lastResolved[i] = "deactivate" =>
            /\ TimersOf(i) = {}
            /\ ~urlCheckInterval[i]

(***************************************************************************)
(* C16. The event bus never holds more than one handler of an instance for *)
(* 'tool:execution-completed' nor more than one for 'ui:sidebar-toggle'.   *)
(***************************************************************************)
AtMostOneHandlerPerEvent ==
    \A i \in Instances : handlers[i].completed <= 1 /\ handlers[i].toggle <= 1

UnsupportedPageHasNoControl ==
    (/\ \E k \in 1..Len(emitted) : emitted[k].type = "app:site-changed"
     /\ ~isSupported(location))
        => ~PopoverExists(popoverNodes)

(***************************************************************************)
(* SpecUrl: the page is at a location and isSupported() is called.         *)
(***************************************************************************)
LifecycleIdle ==
    /\ insertionPoint = FALSE
    /\ activeSidebarManager = FALSE
    /\ DocumentEmpty
    /\ AdapterConstructed

InitUrl ==
    /\ location \in Urls
    /\ LifecycleIdle
    /\ UrlIdle /\ InsertIdle /\ SubmitIdle /\ ToolsIdle /\ ToggleIdle

\* the page navigates to u and the plugin host calls isSupported()
IsSupportedAt(u) ==
    /\ prevCheck' = [url |-> location, result |-> isSupportedResult]
    /\ location' = u
    /\ isSupportedResult' = IF isSupported(u) THEN "true" ELSE "false"
    /\ UNCHANGED <<popoverNodes, styleNodes, insertionPoint, activeSidebarManager,
                   adapterVars, loopVars, busVars, events, insertVars, submitVars, toolVars, toggleVars>>

NextUrl == \E u \in Urls : IsSupportedAt(u)

SpecUrl == InitUrl /\ [][NextUrl]_vars

SameButQuery(u, v) == u.scheme = v.scheme /\ u.host = v.host /\ u.path = v.path

\* The check as the specification words it: the hostname is in the allow-list
\* and the URL is a chat view, a new-conversation view, a project view or the
\* bare root.
AllowedHostAndView(u) ==
    /\ u.host \in hostnames
    /\ u.scheme = "https://"
    /\ \/ StartsWith(u.path, "/chat/")
       \/ StartsWith(u.path, "/new")
       \/ StartsWith(u.path, "/project/")
       \/ u.path = "/"

(***************************************************************************)
(* C6. isSupported() returns true iff the hostname is in the allow-list    *)
(* and the URL is one of the four views (chat, new conversation, project,  *)
(* bare root).                                                             *)
(***************************************************************************)
SupportedIffAllowedHostAndView ==
    isSupportedResult # "none" => ((isSupportedResult = "true") <=> AllowedHostAndView(location))

(***************************************************************************)
(* C7. Two calls of isSupported() on URLs that differ only in their query  *)
(* string return the same result.                                          *)
(***************************************************************************)
QueryNeverChangesSupport ==
    (prevCheck.result # "none" /\ SameButQuery(prevCheck.url, location))
        => isSupportedResult = prevCheck.result

\* a supported URL checked without and then with a query string
SupportedWithAndWithoutQuery ==
    /\ prevCheck.result = "true"
    /\ isSupportedResult = "true"
    /\ SameButQuery(prevCheck.url, location)
    /\ prevCheck.url.query = ""
    /\ location.query = "?next=/new"

(***************************************************************************)
(* C8. isSupported() returns true on the bare root of claude.ai, whose     *)
(* href is the origin followed by "/".                                     *)
(***************************************************************************)
BareRootIsSupported ==
    (isSupportedResult # "none" /\ location = RootUrl) => isSupportedResult = "true"

(***************************************************************************)
(* SpecInsert: text is inserted into a textarea or a contenteditable       *)
(* element by ClaudeAdapter.insertText (the element found by selector or   *)
(* passed as options.targetElement) and by insertTextToChatInput.          *)
(***************************************************************************)
InitInsert ==
    /\ location = ChatUrl
    /\ LifecycleIdle
    /\ UrlIdle /\ SubmitIdle /\ ToolsIdle /\ ToggleIdle
    /\ \E tag \in {"TEXTAREA", "contenteditable"}, v \in Contents :
          /\ chatInput = [tagName |-> tag, value |-> v]
          /\ insertLog = [op |-> "none", initial |-> v, previous |-> v, texts |-> <<>>,
                          returned |-> TRUE]

InsertFrame == UNCHANGED <<docVars, adapterVars, loopVars, busVars, events, urlVars, submitVars, toolVars, toggleVars>>

\* ClaudeAdapter.insertText(text) on a textarea or a contenteditable element
AdapterInsertText(text) ==
    /\ Len(insertLog.texts) < MaxInserts
    /\ chatInput' = [chatInput EXCEPT !.value =
                        IF chatInput.tagName = "TEXTAREA"
                        THEN AdapterTextareaValue(chatInput.value, text)
                        ELSE ContentEditableValue(chatInput.value, text)]
    /\ insertLog' = [insertLog EXCEPT !.op = "adapter", !.texts = Append(@, text),
                                       !.previous = chatInput.value,
                                       !.returned = @ /\ TRUE]
    /\ InsertFrame

\* insertTextToChatInput(text) on a textarea or a contenteditable element
HandlerInsertText(text) ==
    /\ Len(insertLog.texts) < MaxInserts
    /\ chatInput' = [chatInput EXCEPT !.value =
                        IF chatInput.tagName = "TEXTAREA"
                        THEN HandlerTextareaValue(chatInput.value, text)
                        ELSE HandlerContentEditableValue(chatInput.value, text)]
    /\ insertLog' = [insertLog EXCEPT !.op = "handler", !.texts = Append(@, text),
                                       !.previous = chatInput.value,
                                       !.returned = @ /\ TRUE]
    /\ InsertFrame

NextInsert ==
    \/ \E text \in Texts : AdapterInsertText(text)
    \/ \E text \in Texts : HandlerInsertText(text)

SpecInsert == InitInsert /\ [][NextInsert]_vars

\* The value the specification gives a textarea that held v after the texts
\* of ts were inserted in order.
RECURSIVE ValueAfter(_, _)
ValueAfter(v, ts) ==
    IF ts = <<>> THEN v
    ELSE ValueAfter(IF v = "" THEN Head(ts) ELSE v \o "\n\n" \o Head(ts), Tail(ts))

(***************************************************************************)
(* C9. Inserting text into a textarea whose value is empty sets the value  *)
(* to exactly the text; into a non-empty one, to previous + "\n\n" + text; *)
(* for both insert functions, and repeated calls append in call order.     *)
(***************************************************************************)
TextareaInsertAppends ==
    chatInput.tagName = "TEXTAREA" =>
        /\ chatInput.value = ValueAfter(insertLog.initial, insertLog.texts)
        /\ insertLog.returned

\* an insertion into an empty textarea followed by further insertions
InsertedIntoEmptyThenAppended ==
    /\ chatInput.tagName = "TEXTAREA"
    /\ insertLog.initial = ""
    /\ Len(insertLog.texts) = MaxInserts
    /\ insertLog.texts[1] = "a"
    /\ insertLog.texts[2] = "b\n"
    /\ chatInput.value # ""

\* the last insertion put the paragraph separator between the previous
\* content and the text / put the text directly after the previous content
SeparatorInserted ==
    chatInput.value = insertLog.previous \o "\n\n" \o insertLog.texts[Len(insertLog.texts)]

NoSeparatorInserted ==
    chatInput.value = insertLog.previous \o insertLog.texts[Len(insertLog.texts)]

\* s holds a character that is not white space
HasVisibleText(s) == \E k \in 1..Len(s) : SubSeq(s, k, k) \notin {" ", "\n", "\t"}

(***************************************************************************)
(* C21. On a rich-text editable region both insert functions put the       *)
(* paragraph separator before the text if and only if the existing content *)
(* holds a character that is not white space; content that is empty or     *)
(* only white space gets the text without a leading separator.             *)
(***************************************************************************)
RichTextSeparatorIffVisibleContent ==
    (chatInput.tagName = "contenteditable" /\ insertLog.op # "none") =>
        IF HasVisibleText(insertLog.previous) THEN SeparatorInserted ELSE NoSeparatorInserted

\* C21 as stated: the separator is inserted if and only if the existing
\* content is non-empty, content of white space only included
RichTextSeparatorIffNonEmpty ==
    (chatInput.tagName = "contenteditable" /\ insertLog.op # "none") =>
        IF insertLog.previous # "" THEN SeparatorInserted ELSE NoSeparatorInserted

\* text was inserted into a rich-text region that held only white space, and
\* then into the same region once it held visible text
InsertedIntoBlankRichText ==
    /\ chatInput.tagName = "contenteditable"
    /\ insertLog.initial = " "
    /\ Len(insertLog.texts) = 2
    /\ insertLog.texts[1] = "a"
    /\ insertLog.previous = " a"
    /\ SeparatorInserted

(***************************************************************************)
(* SpecSubmit: one call of submitChatInput(maxWaitTime) while the host     *)
(* page changes the submit button.  The disabled property of a button      *)
(* reflects its disabled attribute, so the two are one field.              *)
(***************************************************************************)
checkInterval == 200

\* hasSize: the button is rendered with a non-zero width and height
NoButton == [present |-> FALSE, disabled |-> FALSE, ariaDisabled |-> FALSE,
             classDisabled |-> FALSE, hasSize |-> FALSE]
Buttons ==
    {NoButton} \cup
    [present : {TRUE}, disabled : BOOLEAN, ariaDisabled : BOOLEAN, classDisabled : BOOLEAN,
     hasSize : BOOLEAN]

WaitTimes == {100 * k : k \in 0..(2 * MaxWaitTicks)}

\* isDisabled of tryClickingButton
isDisabled(button) == button.disabled \/ button.ariaDisabled \/ button.classDisabled

\* resolve(v) of the promise: only the first call settles it
Resolve(c, v) == [c EXCEPT !.resolved = IF @ = "pending" THEN v ELSE @]

\* tryClickingButton(), on the call state c and the button it finds
tryClickingButton(c, button) ==
    IF ~button.present THEN Resolve(c, "false")
    ELSE IF ~isDisabled(button)
    THEN Resolve([c EXCEPT !.clicks = @ + 1, !.clicked = @ \cup {button}], "true")
    ELSE c

\* the events dispatched on the chat input to simulate the Enter key
EnterKeyEvents == <<"keydown", "keypress", "keyup">>

\* chatInput.closest('form') of the call: an element that the host page
\* took out of the document has no enclosing form
closestForm(c) == formPresent /\ c.input = "connected"

\* the alternative methods: a submit event on the form, else the Enter keys
alternativeMethods(c) ==
    IF closestForm(c)
    THEN Resolve([c EXCEPT !.formSubmits = @ + 1, !.dispatched = Append(@, "submit")], "true")
    ELSE Resolve([c EXCEPT !.enterKeys = @ + 1, !.dispatched = @ \o EnterKeyEvents], "true")

noButtonMethodsFormThenKeys(c) ==
    Resolve([c EXCEPT !.formSubmits = @ + (IF closestForm(c) THEN 1 ELSE 0),
                      !.enterKeys = @ + 1,
                      !.dispatched = (IF closestForm(c) THEN Append(@, "submit") ELSE @)
                                        \o EnterKeyEvents], "true")

\* the branch taken when no submit button is found
noButtonMethods(c) ==
    IF closestForm(c)
    THEN Resolve([c EXCEPT !.formSubmits = @ + 1, !.dispatched = Append(@, "submit")], "true")
    ELSE Resolve([c EXCEPT !.enterKeys = @ + 1, !.dispatched = @ \o EnterKeyEvents], "true")

InitSubmit ==
    /\ location = ChatUrl
    /\ LifecycleIdle
    /\ UrlIdle /\ InsertIdle /\ ToolsIdle /\ ToggleIdle
    /\ submitButton \in Buttons
    /\ formPresent \in BOOLEAN
    /\ chatInputPresent \in BOOLEAN
    /\ lastFoundInputElement = "null"
    /\ call = [phase |-> "idle", maxWaitTime |-> 0, elapsedTime |-> 0, intervalId |-> FALSE,
               resolved |-> "pending", clicks |-> 0, formSubmits |-> 0, enterKeys |-> 0, ticks |-> 0,
               clicked |-> {}, dispatched |-> <<>>, input |-> "none"]
    /\ hist = [foundAtCall |-> FALSE, disabledAtCall |-> FALSE, everEnabled |-> FALSE,
               enabledAtTick |-> FALSE, alwaysFound |-> TRUE]

SubmitFrame == UNCHANGED <<docVars, adapterVars, loopVars, busVars, events, urlVars, insertVars, toolVars, toggleVars>>

Enabled(button) == button.present /\ ~isDisabled(button)

\* findChatInputElement(): the element it returns, which it also caches
findChatInputElement == IF chatInputPresent THEN "connected" ELSE "none"

\* lastFoundInputElement || findChatInputElement()
chatInputOfCall ==
    IF lastFoundInputElement # "null" THEN lastFoundInputElement ELSE findChatInputElement

\* an earlier call of findChatInputElement(), as insertTextToChatInput and
\* attachFileToChatInput make
FindChatInputElement ==
    /\ call.phase = "idle"
    /\ chatInputPresent
    /\ lastFoundInputElement # "connected"
    /\ lastFoundInputElement' = "connected"
    /\ UNCHANGED <<submitButton, formPresent, chatInputPresent, call, hist>>
    /\ SubmitFrame

\* the host page re-renders the composer: the chat input element that was
\* in the document is detached, and a new one is rendered or not
HostReplacesChatInput(present) ==
    /\ call.phase = "idle"
    /\ chatInputPresent
    /\ chatInputPresent' = present
    /\ lastFoundInputElement' =
          IF lastFoundInputElement = "connected" THEN "detached" ELSE lastFoundInputElement
    /\ UNCHANGED <<submitButton, formPresent, call, hist>>
    /\ SubmitFrame

\* submitChatInput(maxWaitTime): the executor of the promise
SubmitChatInput(maxWaitTime) ==
    /\ call.phase = "idle"
    /\ LET chatInput_ == chatInputOfCall
           started == [call EXCEPT !.phase = "called", !.maxWaitTime = maxWaitTime,
                                   !.input = chatInput_]
       IN /\ call' =
                IF chatInput_ = "none" THEN Resolve(started, "false")
                ELSE IF submitButton.present
                THEN [tryClickingButton(started, submitButton) EXCEPT !.intervalId = submitButton.disabled]
                ELSE noButtonMethods(started)
          /\ hist' = [hist EXCEPT
                        !.foundAtCall = chatInput_ # "none" /\ submitButton.present,
                        !.disabledAtCall = chatInput_ # "none" /\ submitButton.present
                                              /\ isDisabled(submitButton),
                        !.everEnabled = chatInput_ # "none" /\ Enabled(submitButton),
                        !.alwaysFound = submitButton.present]
          /\ lastFoundInputElement' =
                IF lastFoundInputElement = "null" /\ chatInput_ = "connected"
                THEN "connected" ELSE lastFoundInputElement
    /\ UNCHANGED <<submitButton, formPresent, chatInputPresent>>
    /\ SubmitFrame

budgetExhaustedLate(elapsed, maxWaitTime) == elapsed > maxWaitTime

\* elapsedTime >= maxWaitTime: the callback clears the interval
budgetExhausted(elapsed, maxWaitTime) == elapsed >= maxWaitTime

\* one firing of the setInterval callback
IntervalTick ==
    /\ call.intervalId
    /\ LET elapsed == call.elapsedTime + checkInterval
           tried == tryClickingButton([call EXCEPT !.elapsedTime = elapsed, !.ticks = @ + 1], submitButton)
       IN call' =
            IF budgetExhausted(elapsed, call.maxWaitTime)
            THEN alternativeMethods([tried EXCEPT !.intervalId = FALSE])
            ELSE tried
    /\ hist' = [hist EXCEPT !.enabledAtTick = @ \/ Enabled(submitButton)]
    /\ UNCHANGED <<submitButton, formPresent, chatInputPresent, lastFoundInputElement>>
    /\ SubmitFrame

\* between two ticks the host page re-renders, enables, disables or removes
\* the button
ButtonChanges(button) ==
    /\ call.intervalId
    /\ button # submitButton
    /\ submitButton' = button
    /\ hist' = [hist EXCEPT !.everEnabled = @ \/ Enabled(button),
                            !.alwaysFound = @ /\ button.present]
    /\ UNCHANGED <<formPresent, chatInputPresent, lastFoundInputElement, call>>
    /\ SubmitFrame

NextSubmit ==
    \/ FindChatInputElement
    \/ \E present \in BOOLEAN : HostReplacesChatInput(present)
    \/ \E maxWaitTime \in WaitTimes : SubmitChatInput(maxWaitTime)
    \/ IntervalTick
    \/ \E button \in Buttons : ButtonChanges(button)

SpecSubmit == InitSubmit /\ [][NextSubmit]_vars

\* the call has run and no interval callback is left to run
CallOver == call.phase = "called" /\ ~call.intervalId

(***************************************************************************)
(* C3. When the button starts disabled and is enabled at some poll tick    *)
(* within the wait budget, the promise resolves true and click() has been  *)
(* invoked exactly once by the time the interval is cleared.               *)
(***************************************************************************)
ClickedExactlyOnce ==
    (CallOver /\ hist.disabledAtCall /\ hist.enabledAtTick)
        => (call.resolved = "true" /\ call.clicks = 1)

(***************************************************************************)
(* C4. The promise of submitChatInput always settles with a boolean: once  *)
(* the call has run and no callback of it is left, it is resolved.         *)
(***************************************************************************)
PromiseSettles == CallOver => call.resolved \in {"true", "false"}

(***************************************************************************)
(* C5. When a button is found, never becomes enabled during the wait and   *)
(* the input has an enclosing form, a submit event is dispatched on the    *)
(* form, the promise resolves true and click() is never invoked.           *)
(***************************************************************************)
DisabledButtonFallsBackToForm ==
    (CallOver /\ hist.foundAtCall /\ hist.alwaysFound /\ ~hist.everEnabled
        /\ formPresent /\ call.input = "connected")
        => (call.formSubmits = 1 /\ call.resolved = "true" /\ call.clicks = 0)

\* the button is enabled in all four senses: neither the disabled property
\* or attribute, nor aria-disabled, nor the 'disabled' class, and a non-zero
\* rendered width and height
FullyEnabled(button) ==
    /\ button.present
    /\ ~button.disabled
    /\ ~button.ariaDisabled
    /\ ~button.classDisabled
    /\ button.hasSize

(***************************************************************************)
(* C28. A submit control is clicked only when it is enabled in all four    *)
(* senses: every button submitChatInput has clicked was, at the click, not *)
(* disabled by property or attribute, not aria-disabled, without the       *)
(* 'disabled' class, and rendered with a non-zero width and height.        *)
(***************************************************************************)
ClickedOnlyFullyEnabled == \A button \in call.clicked : FullyEnabled(button)

(***************************************************************************)
(* C29. When submitChatInput finds a chat input but no submit control, no  *)
(* polling timer is started and the fallback is dispatched at once: one    *)
(* submit event on the enclosing form if there is one, otherwise (and only *)
(* otherwise) keydown, keypress, keyup for Enter in that order; nothing is *)
(* clicked and the promise resolves true.                                  *)
(***************************************************************************)
NoButtonFallsBackAtOnce ==
    (call.phase = "called" /\ call.input # "none" /\ ~hist.foundAtCall) =>
        /\ ~call.intervalId
        /\ call.ticks = 0
        /\ call.clicks = 0
        /\ call.dispatched = IF formPresent /\ call.input = "connected" THEN <<"submit">>
                                             ELSE <<"keydown", "keypress", "keyup">>
        /\ call.resolved = "true"

\* a call without a submit button and without a form: the Enter keys
NoButtonNoFormEnterKeys ==
    /\ call.phase = "called"
    /\ call.input = "connected"
    /\ ~submitButton.present
    /\ ~formPresent
    /\ call.enterKeys = 1

(***************************************************************************)
(* C30. In a call of submitChatInput that found a button, the fallback is  *)
(* dispatched only when the wait budget is exhausted and the button was    *)
(* never clicked: no call both clicks the button and dispatches a          *)
(* fallback, the tick on which the budget runs out included.               *)
(***************************************************************************)
FallbackOnlyIfNeverClicked ==
    (hist.foundAtCall /\ call.dispatched # <<>>) =>
        /\ call.elapsedTime >= call.maxWaitTime
        /\ call.clicks = 0

(***************************************************************************)
(* C33. submitChatInput only ever focuses, dispatches events on, or looks  *)
(* up the enclosing form of a chat input that is attached to the document  *)
(* at the time of the call: a call that found an input to work on did not  *)
(* take a cached element the host page has since removed.                  *)
(***************************************************************************)
SubmitUsesAttachedInput ==
    (call.phase = "called" /\ call.input # "none") => call.input = "connected"

(***************************************************************************)
(* C34. If the promise of submitChatInput resolves false, the call has not *)
(* clicked the button and dispatches no form 'submit' and no keyboard      *)
(* event, before or after the resolution.                                  *)
(***************************************************************************)
ResolvedFalseDidNothing ==
    call.resolved = "false" => (call.clicks = 0 /\ call.dispatched = <<>>)

\* the number of 200 ms ticks within which a wait of maxWaitTime ends:
\* max(1, ceil(maxWaitTime / 200))
TickBudget(maxWaitTime) ==
    LET ceil == (maxWaitTime + 199) \div 200
    IN IF ceil > 1 THEN ceil ELSE 1

(***************************************************************************)
(* C38. The polling interval of submitChatInput is always cleared: for     *)
(* every maxWaitTime >= 0 and every behaviour of the button the callback   *)
(* fires at most max(1, ceil(maxWaitTime / 200)) times, and once it has    *)
(* fired that often no interval of the call is scheduled any more.         *)
(***************************************************************************)
IntervalAlwaysCleared ==
    /\ call.ticks <= TickBudget(call.maxWaitTime)
    /\ (call.phase = "called" /\ call.ticks = TickBudget(call.maxWaitTime))
            => ~call.intervalId

\* a call with a budget of several ticks polled a button that stayed
\* disabled until the interval was cleared
PolledUntilBudgetRanOut ==
    /\ call.phase = "called"
    /\ call.maxWaitTime > 2 * checkInterval
    /\ call.ticks = TickBudget(call.maxWaitTime)
    /\ call.clicks = 0
    /\ ~call.intervalId

(***************************************************************************)
(* SpecTools: ClaudeAdapter.insertText, submitForm and attachFile, each    *)
(* called on a page drawn from the documents below.  A call is a record:   *)
(* outcome is "true" / "false" (the promise resolved to it) or "rejected"  *)
(* (an exception left the async function), emitted the events put on the   *)
(* event bus, dispatched the DOM events dispatched, in order.              *)
(***************************************************************************)
\* the three selectors of DROP_ZONE, in the order they are tried
DropZoneSelectors == 1..3

\* what the SUBMIT_BUTTON selectors find: selector is the first of the three
\* that matches (0: none); the third one uses :has()
Submits ==
    {[selector |-> 0, state |-> "enabled"]} \cup
    [selector : 1..3, state : {"enabled", "disabled", "hidden"}]

Pages ==
    {pg \in [chatInput : {"none", "TEXTAREA", "contenteditable"},
             content : {"", "a", " "},
             submit : Submits,
             fileInput : BOOLEAN,
             dropZones : SUBSET DropZoneSelectors,
             supportsHas : BOOLEAN] :
        /\ (pg.chatInput = "none" => pg.content = "")
        /\ (pg.submit.selector = 3 => pg.supportsHas)}

\* options.targetElement of insertText: absent, or an element of that kind
Targets == {"none", "TEXTAREA", "contenteditable", "other"}

DomEvent(type, target, file) == [type |-> type, target |-> target, file |-> file]

NewCall(op) ==
    [NoCall EXCEPT !.n = toolCall.n + 1, !.op = op, !.outcome = "pending",
                   !.content = page.content]

Return(c, v) == [c EXCEPT !.outcome = v]

\* an exception thrown inside a try block reaches its catch clause
Caught(c) == [c EXCEPT !.threw = TRUE]

emitExecutionCompleted(c, toolName) ==
    [c EXCEPT !.emitted = Append(@, [type |-> "tool:execution-completed", toolName |-> toolName])]

emitExecutionFailedSilent(c, toolName) == c

emitExecutionFailed(c, toolName) ==
    [c EXCEPT !.emitted = Append(@, [type |-> "tool:execution-failed", toolName |-> toolName])]

\* insertText(text, options): target is options.targetElement, throws says
\* whether a DOM call inside the try block (focus() first) throws
insertText(text, target, throws) ==
    LET c0 == [NewCall("insertText") EXCEPT !.target = target]
        targetElement == IF target # "none" THEN target ELSE page.chatInput
        inputAndChange == <<DomEvent("input", <<"chatInput", 0>>, NullFile),
                            DomEvent("change", <<"chatInput", 0>>, NullFile)>>
    IN  IF targetElement = "none"
        THEN Return(emitExecutionFailed(c0, "insertText"), "false")
        ELSE IF throws
        THEN Return(emitExecutionFailed(Caught(c0), "insertText"), "false")
        ELSE LET done ==
                    IF targetElement = "TEXTAREA"
                    THEN [c0 EXCEPT !.content = AdapterTextareaValue(page.content, text),
                                    !.inserted = TRUE, !.dispatched = inputAndChange]
                    ELSE IF targetElement = "contenteditable"
                    THEN [c0 EXCEPT !.content = ContentEditableValue(page.content, text),
                                    !.inserted = TRUE, !.dispatched = inputAndChange]
                    ELSE c0
             IN Return(emitExecutionCompleted(done, "insertText"), "true")

\* submitForm(): the selector loop runs before the try block; throws says
\* whether a DOM call inside the try block (getBoundingClientRect) throws
submitForm(throws) ==
    LET c0 == NewCall("submitForm")
        button == page.submit
        queryThrows == button.selector \notin {1, 2} /\ ~page.supportsHas
    IN  IF queryThrows THEN Return(c0, "rejected")
        ELSE IF button.selector = 0
        THEN Return(emitExecutionFailed(c0, "submitForm"), "false")
        ELSE IF button.state = "disabled"
        THEN Return(emitExecutionFailed(c0, "submitForm"), "false")
        ELSE IF throws
        THEN Return(emitExecutionFailed(Caught(c0), "submitForm"), "false")
        ELSE IF button.state = "hidden"
        THEN Return(emitExecutionFailed(c0, "submitForm"), "false")
        ELSE Return(emitExecutionCompleted([c0 EXCEPT !.clicked = TRUE], "submitForm"), "true")

supportsFileUpload == page.dropZones # {} \/ page.fileInput

firstDropZoneLast == CHOOSE k \in page.dropZones : \A j \in page.dropZones : k >= j

\* the element simulateFileDrop dispatches on: the first selector that matches
firstDropZone == CHOOSE k \in page.dropZones : \A j \in page.dropZones : k <= j

\* simulateFileDrop(file): [ok, call]; throws says whether a call inside its
\* try block (new DataTransfer()) throws
simulateFileDrop(c, file, throws) ==
    IF page.dropZones = {} THEN [ok |-> FALSE, call |-> c]
    ELSE IF throws THEN [ok |-> FALSE, call |-> Caught(c)]
    ELSE LET zone == <<"dropZone", firstDropZone>>
         IN [ok |-> TRUE,
             call |-> [c EXCEPT !.dispatched = @ \o <<DomEvent("dragenter", zone, file),
                                                      DomEvent("dragover", zone, file),
                                                      DomEvent("drop", zone, file)>>]]

\* attachFile(file, options): inputElement says whether options.inputElement
\* is passed; file.name is read before the try block
attachFile(file, inputElement, throws) ==
    LET c0 == [NewCall("attachFile") EXCEPT !.file = file, !.inputElement = inputElement]
    IN  IF file.isNull THEN Return(c0, "rejected")
        ELSE IF file.size = 0
        THEN Return(emitExecutionFailed(c0, "attachFile"), "false")
        ELSE IF ~supportsFileUpload
        THEN Return(emitExecutionFailed(c0, "attachFile"), "false")
        ELSE IF inputElement \/ page.fileInput
        THEN IF throws
             THEN Return(emitExecutionFailed(Caught(c0), "attachFile"), "false")
             ELSE Return(emitExecutionCompleted(
                            [c0 EXCEPT !.dispatched = <<DomEvent("change", <<"fileInput", 0>>, file)>>,
                                       !.method = "direct-input"],
                            "attachFile"), "true")
        ELSE LET d == simulateFileDrop(c0, file, throws)
             IN IF d.ok
                THEN Return(emitExecutionCompleted([d.call EXCEPT !.method = "drag-drop-simulation"],
                                                   "attachFile"), "true")
                ELSE Return(emitExecutionFailed(d.call, "attachFile"), "false")

InitTools ==
    /\ location = ChatUrl
    /\ LifecycleIdle
    /\ UrlIdle /\ InsertIdle /\ SubmitIdle /\ ToggleIdle
    /\ page \in Pages
    /\ toolCall = NoCall

ToolFrame == UNCHANGED <<docVars, adapterVars, loopVars, busVars, events, urlVars, insertVars, submitVars, toggleVars>>

InsertText(text, target, throws) ==
    /\ toolCall.n < MaxToolCalls
    /\ LET c == insertText(text, target, throws)
       IN /\ toolCall' = c
          /\ page' = [page EXCEPT !.content = c.content]
    /\ ToolFrame

SubmitForm(throws) ==
    /\ toolCall.n < MaxToolCalls
    /\ toolCall' = submitForm(throws)
    /\ UNCHANGED page
    /\ ToolFrame

AttachFile(file, inputElement, throws) ==
    /\ toolCall.n < MaxToolCalls
    /\ toolCall' = attachFile(file, inputElement, throws)
    /\ UNCHANGED page
    /\ ToolFrame

NextTools ==
    \/ \E text \in Texts, target \in Targets, throws \in BOOLEAN : InsertText(text, target, throws)
    \/ \E throws \in BOOLEAN : SubmitForm(throws)
    \/ \E file \in Files, inputElement \in BOOLEAN, throws \in BOOLEAN :
          AttachFile(file, inputElement, throws)

SpecTools == InitTools /\ [][NextTools]_vars

Called(op) == toolCall.op = op /\ toolCall.outcome # "none"

BusTypes(c) == [k \in 1..Len(c.emitted) |-> c.emitted[k].type]

(***************************************************************************)
(* C11. insertText, submitForm and attachFile always resolve to a boolean: *)
(* no call ends with an exception leaving the function.                    *)
(***************************************************************************)
ToolCallsNeverReject == toolCall.outcome \in {"none", "true", "false"}

(***************************************************************************)
(* C12. insertText returns true and emits tool:execution-completed only    *)
(* when the text was added to the target element.                          *)
(***************************************************************************)
InsertTrueOnlyIfInserted ==
    (Called("insertText") /\ (toolCall.outcome = "true" \/ BusTypes(toolCall) = <<"tool:execution-completed">>))
        => toolCall.inserted

(***************************************************************************)
(* C13. attachFile returns false iff the file is empty or neither a file   *)
(* input (passed as options.inputElement or found in the document) nor a   *)
(* drop zone is there; with a non-empty file and a reachable file input it *)
(* assigns the file directly, dispatches 'change' and returns true.        *)
(***************************************************************************)
AttachFalseIffEmptyOrNoMethod ==
    (Called("attachFile") /\ toolCall.outcome \in {"true", "false"} /\ ~toolCall.threw) =>
        LET reachable == toolCall.inputElement \/ page.fileInput
        IN /\ (toolCall.outcome = "false")
                <=> (toolCall.file.size = 0 \/ (~reachable /\ page.dropZones = {}))
           /\ (toolCall.file.size > 0 /\ reachable) =>
                /\ toolCall.method = "direct-input"
                /\ toolCall.dispatched = <<DomEvent("change", <<"fileInput", 0>>, toolCall.file)>>
                /\ toolCall.outcome = "true"

(***************************************************************************)
(* C19. Every call of insertText, submitForm or attachFile that returns    *)
(* emits exactly one execution event, naming the operation: completed and  *)
(* nothing else iff it returns true, failed and nothing else iff false.    *)
(***************************************************************************)
ExactlyOneExecutionEvent ==
    toolCall.outcome \in {"true", "false"} =>
        /\ (toolCall.outcome = "true") <=> (BusTypes(toolCall) = <<"tool:execution-completed">>)
        /\ (toolCall.outcome = "false") <=> (BusTypes(toolCall) = <<"tool:execution-failed">>)
        /\ \A k \in 1..Len(toolCall.emitted) : toolCall.emitted[k].toolName = toolCall.op

\* a second call, of attachFile, that failed in its catch clause
AttachFailedInCatch ==
    /\ toolCall.n = MaxToolCalls
    /\ Called("attachFile")
    /\ toolCall.threw
    /\ toolCall.outcome = "false"
    /\ Len(toolCall.emitted) = 1

(***************************************************************************)
(* C20. One attachFile call never performs both the direct method and the  *)
(* drag-and-drop fallback; the fallback runs only when no file input was   *)
(* found and dispatches dragenter, dragover, drop, in that order, on the    *)
(* first matching drop zone, each carrying the file.                       *)
(***************************************************************************)
DirectXorDragDrop ==
    Called("attachFile") =>
        LET types == {toolCall.dispatched[k].type : k \in 1..Len(toolCall.dispatched)}
            dragged == types \cap {"dragenter", "dragover", "drop"} # {}
        IN /\ ~("change" \in types /\ dragged)
           /\ (dragged \/ toolCall.method = "drag-drop-simulation") =>
                /\ ~toolCall.inputElement /\ ~page.fileInput
                /\ \E k \in page.dropZones :
                      /\ \A j \in page.dropZones : k <= j
                      /\ toolCall.dispatched =
                            <<DomEvent("dragenter", <<"dropZone", k>>, toolCall.file),
                              DomEvent("dragover", <<"dropZone", k>>, toolCall.file),
                              DomEvent("drop", <<"dropZone", k>>, toolCall.file)>>

\* a file dropped on a page where several drop-zone selectors match
DroppedOnFirstOfSeveralZones ==
    /\ Called("attachFile")
    /\ toolCall.outcome = "true"
    /\ toolCall.method = "drag-drop-simulation"
    /\ Cardinality(page.dropZones) >= 2
    /\ 1 \notin page.dropZones

(***************************************************************************)
(* SpecToggle: the toggle state manager of createToggleStateManager over   *)
(* the UI store of the plugin context.  The store is outside the           *)
(* repository: its setters keep the value they are given.                  *)
(***************************************************************************)
ToggleKeys == {"mcpEnabled", "autoInsert", "autoSubmit", "autoExecute"}

\* context.stores.ui.setMCPEnabled(enabled, reason)
storeSetMCPEnabled(st, enabled) == [st EXCEPT !.mcpEnabled = enabled]

\* context.stores.ui.setSidebarVisibility(visible, reason)
storeSetSidebarVisibility(st, visible) ==
    [st EXCEPT !.sidebarVisibility = IF visible THEN "shown" ELSE "hidden"]

\* context.stores.ui.updatePreferences({ autoSubmit: enabled })
storeUpdatePreferences(st, enabled) == [st EXCEPT !.autoSubmit = enabled]

\* stateManager.getState() over the store st
getState(st) == ToggleState(st.mcpEnabled, st.autoSubmit, st.autoSubmit, FALSE)

\* stateManager.updateUI(): the event dispatched on the popover container
updateUI(st) ==
    [sent |-> PopoverExists(popoverNodes), toggleState |->
        IF PopoverExists(popoverNodes) THEN getState(st)
        ELSE ToggleState(FALSE, FALSE, FALSE, FALSE)]

\* the record of a setter call that left the store as st
ToggleCalled(key, value, st, sidebar) ==
    [key |-> key, value |-> value, before |-> getState(uiStore), after |-> getState(st),
     sidebar |-> sidebar, event |-> updateUI(st)]

InitToggle ==
    /\ location = ChatUrl
    /\ insertionPoint = FALSE
    /\ activeSidebarManager \in BOOLEAN
    /\ popoverNodes \in {<<>>, <<1>>}
    /\ styleNodes = 0
    /\ AdapterConstructed
    /\ UrlIdle /\ InsertIdle /\ SubmitIdle /\ ToolsIdle
    /\ uiStore \in [mcpEnabled : BOOLEAN, autoSubmit : BOOLEAN, sidebarVisibility : {"unset"},
                     setMCPEnabled : BOOLEAN, setSidebarVisibility : BOOLEAN,
                     updatePreferences : BOOLEAN]
    /\ toggleCall = NoToggleCall

ToggleFrame ==
    UNCHANGED <<docVars, adapterVars, loopVars, busVars, events, urlVars, insertVars,
                submitVars, toolVars>>

\* stateManager.setMCPEnabled(enabled)
SetMCPEnabled(enabled) ==
    /\ LET st == IF uiStore.setMCPEnabled THEN storeSetMCPEnabled(uiStore, enabled)
                 ELSE IF uiStore.setSidebarVisibility
                 THEN storeSetSidebarVisibility(uiStore, enabled)
                 ELSE uiStore
           sidebar == IF ~activeSidebarManager THEN "none"
                      ELSE IF enabled THEN "show" ELSE "hide"
       IN /\ uiStore' = st
          /\ toggleCall' = ToggleCalled("mcpEnabled", enabled, st, sidebar)
    /\ ToggleFrame

\* stateManager.setAutoInsert(enabled)
SetAutoInsert(enabled) ==
    /\ LET st == IF uiStore.updatePreferences THEN storeUpdatePreferences(uiStore, enabled)
                 ELSE uiStore
       IN /\ uiStore' = st
          /\ toggleCall' = ToggleCalled("autoInsert", enabled, st, "none")
    /\ ToggleFrame

\* stateManager.setAutoSubmit(enabled)
SetAutoSubmit(enabled) ==
    /\ LET st == IF uiStore.updatePreferences THEN storeUpdatePreferences(uiStore, enabled)
                 ELSE uiStore
       IN /\ uiStore' = st
          /\ toggleCall' = ToggleCalled("autoSubmit", enabled, st, "none")
    /\ ToggleFrame

\* stateManager.setAutoExecute(enabled)
SetAutoExecute(enabled) ==
    /\ uiStore' = uiStore
    /\ toggleCall' = ToggleCalled("autoExecute", enabled, uiStore, "none")
    /\ ToggleFrame

NextToggle ==
    \/ \E enabled \in BOOLEAN : SetMCPEnabled(enabled)
    \/ \E enabled \in BOOLEAN : SetAutoInsert(enabled)
    \/ \E enabled \in BOOLEAN : SetAutoSubmit(enabled)
    \/ \E enabled \in BOOLEAN : SetAutoExecute(enabled)

SpecToggle == InitToggle /\ [][NextToggle]_vars

\* the store exposes the setters the state manager writes through
StoreExposesSetters == uiStore.setMCPEnabled /\ uiStore.updatePreferences

(***************************************************************************)
(* C35. Toggle round-trip: for each of the four toggles K and each boolean *)
(* v, when the UI store exposes its setters, getState() after the setter   *)
(* of K was called with v returns K = v.                                   *)
(***************************************************************************)
ToggleRoundTrip ==
    (toggleCall.key # "none" /\ StoreExposesSetters) =>
        toggleCall.after[toggleCall.key] = toggleCall.value

(***************************************************************************)
(* C36. The toggles are independent: the setter of one toggle changes no   *)
(* other toggle's value as returned by getState().                         *)
(***************************************************************************)
TogglesIndependent ==
    toggleCall.key # "none" =>
        \A k \in ToggleKeys \ {toggleCall.key} : toggleCall.after[k] = toggleCall.before[k]

====
